---- MODULE Spec2Model ----
(***************************************************************************)
(* Model of two parts of the jail manager:                                 *)
(*   - src/libioc/Provisioning/puppet.py: the control-repo descriptor and  *)
(*     the provision() generator, driven by a caller for several jails;    *)
(*   - src/libiocage/lib/Jails.py: the lazy (JailsGenerator) and eager     *)
(*     (Jails) enumeration of jails.                                       *)
(* Strings are TLA+ strings; startswith, split and list += str are         *)
(* computed character by character with Len, SubSeq and \o.                *)
(***************************************************************************)
EXTENDS Integers, Sequences, FiniteSets, TLC

(***************************************************************************)
(* Bounds of the model.                                                    *)
(***************************************************************************)
\* provision() calls the caller makes in one behaviour, over all jails
MaxRuns == 2
\* lifecycle events the package subsystem emits in one fetch_and_install
MaxPkgEvents == 2

(***************************************************************************)
(* String helpers (Python str methods, computed as Python computes them).  *)
(***************************************************************************)
StartsWith(s, p) == Len(s) >= Len(p) /\ SubSeq(s, 1, Len(p)) = p

Chars(s) == [i \in 1..Len(s) |-> SubSeq(s, i, i)]

(***************************************************************************)
(* The jails, their datasets and the provisioning sources.                 *)
(***************************************************************************)
JailNames == {"j1", "j2"}

JailDatasetName(j) == "zroot/ioc/jails/" \o j

SourceUrls == {"/srv/puppet-env", "file:///srv/env", "https://git.example/env.git"}

SourceName(url) == "my-puppet-env"

Cwds == {"/", "/root"}

NoErr == "none"

(***************************************************************************)
(* ControlRepoDefinition (puppet.py 53-132).                                *)
(***************************************************************************)
\* __init__, lines 60-72: the local list _pkgs; `_pkgs += 'rubygem-r10k'`
\* extends a list by a str, that is by its characters.
InitLocalPkgs(url) ==
  IF ~(StartsWith(url, "file://") \/ StartsWith(url, "/"))
    THEN <<"puppet6">> \o Chars("rubygem-r10k")
    ELSE <<"puppet6">>

\* __init__, lines 60-72: the object keeps logger, url and name. It is a dict
\* that is never given an item, and the list _pkgs stays a local of __init__.
ControlRepoDefinition(name, url) ==
  [url |-> url, name |-> name, keys |-> {}, attrs |-> {"logger", "url", "name"}]

NoDefinition == [url |-> "", name |-> "", keys |-> {}, attrs |-> {}]

\* local that forgets the file:// form
LocalSlashOnly(d) == IF ~StartsWith(d.url, "/") THEN FALSE ELSE TRUE

\* property local, lines 74-78
Local(d) ==
  IF ~(StartsWith(d.url, "file://") \/ StartsWith(d.url, "/")) THEN FALSE ELSE TRUE

\* property remote, lines 80-82
Remote(d) == ~Local(d)

\* generate_postinstall, lines 109-132, as the sequence of the script's
\* non-blank lines without their indentation. The strings are plain literals,
\* not f-strings: "{self.url}" stays as written.
GeneratePostinstall(d) ==
  <<"#!/bin/sh", "set -eu">>
  \o (IF Remote(d)
        THEN <<"cat > /usr/local/etc/r10k/r10k.yml <EOF",
               "---",
               ":source:",
               "puppet:",
               "basedir: /usr/local/etc/puppet/environments",
               "remote: {self.url}",
               ">EOF",
               "r10k deploy environment -p">>
        ELSE <<>>)
  \o <<"puppet apply /usr/local/etc/puppet/environments/manifests/site.pp">>

(***************************************************************************)
(* Collaborators of provision().                                           *)
(***************************************************************************)
\* the dataset store: a dataset is mounted at "/" + its name
Mountpoint(ds) == "/" \o ds

\* os.path: a relative path is resolved against the working directory
AbsPath(wd, p) ==
  IF StartsWith(p, "/") THEN p
  ELSE IF wd = "/" THEN "/" \o p
  ELSE wd \o "/" \o p

\* os.path.isdir over the directories the dataset store has mounted
IsDir(wd, mounted, p) == AbsPath(wd, p) \in {Mountpoint(ds) : ds \in mounted}

PuppetDestination == "/usr/local/etc/puppet"

\* fstab.new_line: with replace, a line with the same destination is
\* overwritten in place; otherwise the line is appended
FstabNewLine(lines, line) ==
  IF line.replace /\ \E i \in 1..Len(lines) : lines[i].destination = line.destination
    THEN [i \in 1..Len(lines) |->
            IF lines[i].destination = line.destination
              THEN [source |-> line.source, destination |-> line.destination,
                    options |-> line.options]
              ELSE lines[i]]
    ELSE Append(lines, [source |-> line.source, destination |-> line.destination,
                        options |-> line.options])

InitialFstab == <<[source |-> "/data", destination |-> "/mnt/data", options |-> "ro"]>>

\* the events fetch_and_install emits when it emits n of them
PkgEvent(i) == [kind |-> "Pkg", state |-> "step", seq |-> i, err |-> NoErr]

(***************************************************************************)
(* provision() (puppet.py 135-230): what each statement computes.          *)
(***************************************************************************)
Event(kind, state, e) == [kind |-> kind, state |-> state, seq |-> 0, err |-> e]

\* line 180
PluginDatasetName(j) == JailDatasetName(j) \o "/puppet"

PluginDatasets == {PluginDatasetName(j) : j \in JailNames}

\* line 185: the guard of the clone tests the dataset's name as a path
CloneGuard(wd, mounted, j) == ~IsDir(wd, mounted, PluginDatasetName(j))

\* BranchResult with the modes of the two branches exchanged
BranchResultSwapped(j, d, src) ==
  IF Remote(d)
    THEN [mode |-> "ro", mount_source |-> Mountpoint(JailDatasetName(j) \o "/puppet")]
    ELSE [mode |-> "rw", mount_source |-> src]

\* lines 178-195: mode and mount_source of the two branches
BranchResult(j, d, src) ==
  IF Remote(d)
    THEN [mode |-> "rw", mount_source |-> Mountpoint(PluginDatasetName(j))]
    ELSE [mode |-> "ro", mount_source |-> src]

\* MountLine without replace=True
MountLineNoReplace(b) ==
  [source |-> b.mount_source, destination |-> PuppetDestination,
   options |-> b.mode, auto_create_destination |-> TRUE, replace |-> FALSE]

\* lines 197-203: the arguments of fstab.new_line
MountLine(b) ==
  [source |-> b.mount_source, destination |-> PuppetDestination,
   options |-> b.mode, auto_create_destination |-> TRUE, replace |-> TRUE]

\* property pkgs, lines 104-107: reads the attribute _pkgs
Pkgs(d) ==
  IF "_pkgs" \in d.attrs THEN InitLocalPkgs(d.url) ELSE <<"AttributeError">>

\* lines 206-209: the descriptor is a dict without items, so the test fails
ResolvePackages(d) ==
  IF "pkgs" \in d.keys THEN Pkgs(d) ELSE <<>>

\* line 219: a plain string literal, the same for every jail
PostinstallPath(j) == "{self.jail.abspath}/launch-scripts/provision.sh"

ScriptPaths == {PostinstallPath(j) : j \in JailNames}

NoScript == <<>>

NoCall == [called |-> FALSE, jail |-> "", packages |-> <<>>, postinstall |-> ""]

NoBranch == [mode |-> "", mount_source |-> ""]

(***************************************************************************)
(* State.                                                                  *)
(***************************************************************************)
VARIABLES
  cwd,          \* working directory of the process
  runs,         \* provision() calls made so far
  pc,           \* per jail: position of its provision() generator
  source,       \* per jail: self.source of the current run
  events,       \* per jail: events the current run has yielded
  err,          \* per jail: exception caught or raised by the current run
  pluginDefinition, \* per jail: local of provision()
  branch,       \* per jail: locals mode and mount_source
  ops,          \* per jail: collaborator calls of the current run, in order
  datasets,     \* dataset store: plugin datasets that exist (and are mounted)
  content,      \* per plugin dataset: the url cloned into its mountpoint, or ""
  startContent, \* per jail: content of its plugin dataset when the run began
  fstab,        \* per jail: lines of jail.fstab
  fstabSaved,   \* per jail: lines last persisted by fstab.save()
  files,        \* per path: lines of the script file, or NoScript
  pkgCall,      \* per jail: arguments given to fetch_and_install
  pkgLeft,      \* per jail: events fetch_and_install still has to emit
  executed      \* per jail: script the package subsystem ran, or NoScript

pvars == <<cwd, runs, pc, source, events, err, pluginDefinition, branch, ops,
           datasets, content, startContent, fstab, fstabSaved,
           files, pkgCall, pkgLeft, executed>>

(***************************************************************************)
(* Jails.py: the enumeration of jails.                                     *)
(***************************************************************************)
\* children the jails root dataset may list
MaxChildren == 3
\* terms of a filter set
MaxTerms == 2

RECURSIVE LastSlash(_, _)
LastSlash(s, i) ==
  IF i = 0 THEN 0
  ELSE IF SubSeq(s, i, i) = "/" THEN i
  ELSE LastSlash(s, i - 1)

\* _get_name_from_jail_dataset, lines 87-92: dataset.name.split("/").pop()
GetNameFromJailDataset(ds) == SubSeq(ds, LastSlash(ds, Len(ds)) + 1, Len(ds))

ChildDatasets ==
  {"zroot/ioc/jails/web1", "zroot/ioc/jails/web2", "zroot/ioc/jails/db1", "zroot/ioc/jails/db2"}

\* the listings of the jails root dataset: no dataset is listed twice
RECURSIVE ListingsOfLen(_)
ListingsOfLen(n) ==
  IF n = 0 THEN {<<>>}
  ELSE {Append(l, d) : l \in ListingsOfLen(n - 1), d \in ChildDatasets}

NoRepeat(l) == \A a, b \in 1..Len(l) : a # b => l[a] # l[b]

Listings ==
  UNION {{l \in ListingsOfLen(n) : NoRepeat(l)} : n \in 0..MaxChildren}

\* what loading a jail by its name finds: attributes held by the jail object
\* and the key/value pairs of its configuration
JailStore(name) ==
  IF name = "web1" THEN [name |-> name, running |-> "yes", config |-> {<<"tag", "prod">>}]
  ELSE IF name = "web2" THEN [name |-> name, running |-> "no", config |-> {<<"tag", "prod">>}]
  ELSE IF name = "db1" THEN [name |-> name, running |-> "yes", config |-> {}]
  ELSE [name |-> name, running |-> "no", config |-> {<<"tag", "test">>}]

\* JailFilter: the terms a filter set is made of
FilterTerms ==
  {[key |-> "name", value |-> "web1"], [key |-> "name", value |-> "db2"],
   [key |-> "running", value |-> "yes"], [key |-> "tag", value |-> "prod"]}

FilterSets == {f \in SUBSET FilterTerms : Cardinality(f) <= MaxTerms}

\* Terms.match_key: every term on this key accepts the value
MatchKey(terms, key, value) == \A t \in terms : t.key = key => t.value = value

\* the values a key resolves to on a jail: none for an unknown key
ResolveKey(jail, key) ==
  IF key = "name" THEN {jail.name}
  ELSE IF key = "running" THEN {jail.running}
  ELSE {kv[2] : kv \in {x \in jail.config : x[1] = key}}

\* Terms.match_jail: every term matches the jail
MatchJail(terms, jail) == \A t \in terms : t.value \in ResolveKey(jail, t.key)

\* _load_jail_from_dataset, lines 78-85: the jail made from the derived name
LoadJailFromDataset(ds) == JailStore(GetNameFromJailDataset(ds))

\* the loop without its pre-filter
PassesNameFilterAlways(terms, ds) == TRUE

\* __iter__, line 40: the pre-filter on the derived name
PassesNameFilter(terms, ds) ==
  MatchKey(terms, "name", GetNameFromJailDataset(ds)) = TRUE

\* Jails.__iter__, line 104: the value returned is a list
JailsIterResult(records) == [type |-> "list", items |-> records]

\* JailsGenerator.__iter__ is a generator function: it returns a generator
JailsGeneratorIterResult(records) == [type |-> "generator", items |-> records]

\* iter(): the value __iter__ returns must be an iterator
IterAccepts(r) == r.type \in {"generator", "list_iterator"}

VARIABLES
  children,   \* jail_datasets: the listing of the jails root dataset
  filters,    \* self._filters
  corrupt,    \* names of the jails whose loading raises
  mode,       \* "lazy": JailsGenerator is iterated; "eager": Jails is
  gstate,     \* the generator of JailsGenerator.__iter__
  pos,        \* index in children of the candidate the loop is at
  loaded,     \* datasets given to _load_jail_from_dataset, in order
  yielded,    \* jails the generator has yielded, in order
  requested,  \* jails the consumer of the generator has asked for
  delivered,  \* jails the caller of the enumeration received
  iterError   \* exception the caller of the enumeration received

evars == <<children, filters, corrupt, mode, gstate, pos, loaded, yielded,
           requested, delivered, iterError>>

(***************************************************************************)
(* ControlRepoDefinition on its own: a url is drawn and the constructor,   *)
(* the properties local and remote and generate_postinstall are applied.   *)
(***************************************************************************)
\* characters that follow the head of a url
MaxTail == 2

UrlHeads ==
  {"", "/", " /", "file://", "file:/", "file:", "File://", "http://", "https://", "git@"}

RECURSIVE UrlTails(_)
UrlTails(n) ==
  IF n = 0 THEN {""}
  ELSE UrlTails(n - 1) \cup {t \o ch : t \in UrlTails(n - 1), ch \in {"a", "/"}}

DescriptorUrls == {h \o t : h \in UrlHeads, t \in UrlTails(MaxTail)}

\* lines 89 and 99: the decorator written above the setters of url and name
SetterDecorator == "property.setter"

\* property.setter reached through the class is given the function in place
\* of a property object and raises TypeError; <name>.setter registers it
DecoratorRaises(decorator) == decorator = "property.setter"

\* line 90: the parameters of the function meant as the setter of url
UrlSetterParams == 1

\* lines 60-72 with the accessors of lines 84-102: the class body raises at
\* the decorator; were the setter registered, `self.url = url` (line 67)
\* would call it with the object and the value
Construct(name, url) ==
  IF DecoratorRaises(SetterDecorator) \/ UrlSetterParams # 2
    THEN [raised |-> "TypeError", definition |-> NoDefinition]
    ELSE [raised |-> NoErr, definition |-> ControlRepoDefinition(name, url)]

NotClassified == [done |-> FALSE, local |-> FALSE, remote |-> FALSE]

VARIABLES
  dUrl,        \* the url given to ControlRepoDefinition
  dConstruct,  \* "" before construction, then NoErr or the exception raised
  dClass,      \* the values of the properties local and remote
  dScript      \* the lines generate_postinstall returned, or NoScript

dvars == <<dUrl, dConstruct, dClass, dScript>>

vars == <<pvars, evars, dvars>>

\* no descriptor is examined on its own
NoDescriptor ==
  /\ dUrl = ""
  /\ dConstruct = ""
  /\ dClass = NotClassified
  /\ dScript = NoScript

YieldPcs == {"y_pbegin", "y_abegin", "y_aend", "y_afail", "y_pkg", "y_pfail"}

EndPcs == {"idle", "done", "raised", "abandoned"}

\* one generator runs at a time: the others wait at a yield or are over
OthersSuspended(j) == \A k \in JailNames \ {j} : pc[k] \in YieldPcs \cup EndPcs

\* no enumeration is under way
NoEnumeration ==
  /\ children = <<>>
  /\ filters = {}
  /\ corrupt = {}
  /\ mode = "lazy"
  /\ gstate = "closed"
  /\ pos = 1
  /\ loaded = <<>>
  /\ yielded = <<>>
  /\ requested = 0
  /\ delivered = <<>>
  /\ iterError = NoErr

InitProvision ==
  /\ cwd \in Cwds
  /\ runs = 0
  /\ pc = [j \in JailNames |-> "idle"]
  /\ source = [j \in JailNames |-> ""]
  /\ events = [j \in JailNames |-> <<>>]
  /\ err = [j \in JailNames |-> NoErr]
  /\ pluginDefinition = [j \in JailNames |-> NoDefinition]
  /\ branch = [j \in JailNames |-> NoBranch]
  /\ ops = [j \in JailNames |-> <<>>]
  /\ datasets = {}
  /\ content = [ds \in PluginDatasets |-> ""]
  /\ startContent = [j \in JailNames |-> ""]
  /\ fstab = [j \in JailNames |-> InitialFstab]
  /\ fstabSaved = [j \in JailNames |-> InitialFstab]
  /\ files = [p \in ScriptPaths |-> NoScript]
  /\ pkgCall = [j \in JailNames |-> NoCall]
  /\ pkgLeft = [j \in JailNames |-> <<>>]
  /\ executed = [j \in JailNames |-> NoScript]

Init == InitProvision /\ NoEnumeration /\ NoDescriptor

(***************************************************************************)
(* provision(): one action per segment of the generator between two        *)
(* suspension points, split at the collaborator calls. A segment of one    *)
(* jail runs only while every other generator is suspended or over.        *)
(***************************************************************************)
Emit(j, e) == events' = [events EXCEPT ![j] = Append(@, e)]

Call(j, op) == ops' = [ops EXCEPT ![j] = Append(@, op)]

\* an exception that leaves provision() uncaught
Raise(j, e) ==
  /\ pc' = [pc EXCEPT ![j] = "raised"]
  /\ err' = [err EXCEPT ![j] = e]

\* the caller makes the generator and asks for its first event (153-158)
StartRun(j, url) ==
  /\ pc[j] \in EndPcs
  /\ OthersSuspended(j)
  /\ runs < MaxRuns
  /\ runs' = runs + 1
  /\ source' = [source EXCEPT ![j] = url]
  /\ events' = [events EXCEPT ![j] = <<Event("JailProvisioning", "begin", NoErr)>>]
  /\ err' = [err EXCEPT ![j] = NoErr]
  /\ pluginDefinition' = [pluginDefinition EXCEPT ![j] = NoDefinition]
  /\ branch' = [branch EXCEPT ![j] = NoBranch]
  /\ ops' = [ops EXCEPT ![j] = <<>>]
  /\ startContent' = [startContent EXCEPT ![j] = content[PluginDatasetName(j)]]
  /\ pkgCall' = [pkgCall EXCEPT ![j] = NoCall]
  /\ pkgLeft' = [pkgLeft EXCEPT ![j] = <<>>]
  /\ executed' = [executed EXCEPT ![j] = NoScript]
  /\ pc' = [pc EXCEPT ![j] = "y_pbegin"]
  /\ UNCHANGED <<cwd, datasets, content, fstab, fstabSaved, files>>

\* lines 159-167
AssetDownloadBegin(j) ==
  /\ pc[j] = "y_pbegin"
  /\ OthersSuspended(j)
  /\ Emit(j, Event("JailProvisioningAssetDownload", "begin", NoErr))
  /\ pc' = [pc EXCEPT ![j] = "y_abegin"]
  /\ UNCHANGED <<cwd, runs, source, err, pluginDefinition, branch, ops, datasets,
                 content, startContent, fstab, fstabSaved, files,
                 pkgCall, pkgLeft, executed>>

\* lines 168-173: the descriptor is built, AssetDownload.end is yielded.
\* The try block of lines 166-176 tells two outcomes of the construction
\* apart, and the pipeline is followed for both; what the constructor does
\* as it is written is Construct.
ConstructOk(j) ==
  /\ pc[j] = "y_abegin"
  /\ OthersSuspended(j)
  /\ pluginDefinition' = [pluginDefinition EXCEPT ![j] =
                            ControlRepoDefinition(SourceName(source[j]), source[j])]
  /\ Emit(j, Event("JailProvisioningAssetDownload", "end", NoErr))
  /\ pc' = [pc EXCEPT ![j] = "y_aend"]
  /\ UNCHANGED <<cwd, runs, source, err, branch, ops, datasets, content,
                 startContent, fstab, fstabSaved, files, pkgCall,
                 pkgLeft, executed>>

\* ConstructRaise without the except clause: the error leaves at once
ConstructRaiseUnreported(j) ==
  /\ pc[j] = "y_abegin"
  /\ OthersSuspended(j)
  /\ Raise(j, "ConstructError")
  /\ UNCHANGED <<cwd, runs, source, events, pluginDefinition, branch, ops, datasets,
                 content, startContent, fstab, fstabSaved, files,
                 pkgCall, pkgLeft, executed>>

\* lines 168-175: building the descriptor raises, AssetDownload.fail is yielded
ConstructRaise(j) ==
  /\ pc[j] = "y_abegin"
  /\ OthersSuspended(j)
  /\ err' = [err EXCEPT ![j] = "ConstructError"]
  /\ Emit(j, Event("JailProvisioningAssetDownload", "fail", "ConstructError"))
  /\ pc' = [pc EXCEPT ![j] = "y_afail"]
  /\ UNCHANGED <<cwd, runs, source, pluginDefinition, branch, ops, datasets,
                 content, startContent, fstab, fstabSaved, files,
                 pkgCall, pkgLeft, executed>>

\* the handler undoes the jail's mount-table changes before it raises
ReraiseRollback(j) ==
  /\ pc[j] \in {"y_afail", "y_pfail"}
  /\ OthersSuspended(j)
  /\ pc' = [pc EXCEPT ![j] = "raised"]
  /\ fstab' = [fstab EXCEPT ![j] = InitialFstab]
  /\ fstabSaved' = [fstabSaved EXCEPT ![j] = InitialFstab]
  /\ UNCHANGED <<cwd, runs, source, events, err, pluginDefinition, branch, ops,
                 datasets, content, startContent, files, pkgCall, pkgLeft,
                 executed>>

\* line 176, and line 230: raise e after the fail event was consumed
Reraise(j) ==
  /\ pc[j] \in {"y_afail", "y_pfail"}
  /\ OthersSuspended(j)
  /\ pc' = [pc EXCEPT ![j] = "raised"]
  /\ UNCHANGED <<cwd, runs, source, events, err, pluginDefinition, branch, ops,
                 datasets, content, startContent, fstab, fstabSaved,
                 files, pkgCall, pkgLeft, executed>>

\* GetOrCreateDataset moved up, before the descriptor is built
GetOrCreateDatasetEarly(j) ==
  /\ pc[j] = "y_abegin"
  /\ OthersSuspended(j)
  /\ ~(StartsWith(source[j], "file://") \/ StartsWith(source[j], "/"))
  /\ Call(j, "get_or_create_dataset")
  /\ datasets' = datasets \cup {PluginDatasetName(j)}
  /\ pc' = [pc EXCEPT ![j] = "clone"]
  /\ UNCHANGED <<cwd, runs, source, events, err, pluginDefinition, branch, content,
                 startContent, fstab, fstabSaved, files, pkgCall, pkgLeft, executed>>

\* lines 178-183, remote branch: get_or_create_dataset returns or raises
GetOrCreateDataset(j) ==
  /\ pc[j] = "y_aend"
  /\ OthersSuspended(j)
  /\ Remote(pluginDefinition[j])
  /\ Call(j, "get_or_create_dataset")
  /\ \/ /\ datasets' = datasets \cup {PluginDatasetName(j)}
        /\ pc' = [pc EXCEPT ![j] = "clone"]
        /\ UNCHANGED err
     \/ /\ Raise(j, "DatasetError")
        /\ UNCHANGED datasets
  /\ UNCHANGED <<cwd, runs, source, events, pluginDefinition, branch, content,
                 startContent, fstab, fstabSaved, files, pkgCall,
                 pkgLeft, executed>>

\* lines 185-192: clone unless the guard finds the directory; the fetch
\* client fails on a destination that is not empty, or on its own
CloneFrom(j) ==
  /\ pc[j] = "clone"
  /\ OthersSuspended(j)
  /\ CloneGuard(cwd, datasets, j)
  /\ Call(j, "clone_from")
  /\ \/ /\ content[PluginDatasetName(j)] = ""
        /\ content' = [content EXCEPT ![PluginDatasetName(j)] = pluginDefinition[j].url]
        /\ branch' = [branch EXCEPT ![j] = BranchResult(j, pluginDefinition[j], source[j])]
        /\ pc' = [pc EXCEPT ![j] = "mount"]
        /\ UNCHANGED err
     \/ /\ Raise(j, "CloneError")
        /\ UNCHANGED <<content, branch>>
  /\ UNCHANGED <<cwd, runs, source, events, pluginDefinition, datasets,
                 startContent, fstab, fstabSaved, files, pkgCall, pkgLeft, executed>>

\* lines 185, 192: the guard finds the directory, nothing is cloned
CloneSkipped(j) ==
  /\ pc[j] = "clone"
  /\ OthersSuspended(j)
  /\ ~CloneGuard(cwd, datasets, j)
  /\ branch' = [branch EXCEPT ![j] = BranchResult(j, pluginDefinition[j], source[j])]
  /\ pc' = [pc EXCEPT ![j] = "mount"]
  /\ UNCHANGED <<cwd, runs, source, events, err, pluginDefinition, ops, datasets,
                 content, startContent, fstab, fstabSaved, files,
                 pkgCall, pkgLeft, executed>>

\* lines 193-195, local branch
LocalBranch(j) ==
  /\ pc[j] = "y_aend"
  /\ OthersSuspended(j)
  /\ ~Remote(pluginDefinition[j])
  /\ branch' = [branch EXCEPT ![j] = BranchResult(j, pluginDefinition[j], source[j])]
  /\ pc' = [pc EXCEPT ![j] = "mount"]
  /\ UNCHANGED <<cwd, runs, source, events, err, pluginDefinition, ops, datasets,
                 content, startContent, fstab, fstabSaved, files,
                 pkgCall, pkgLeft, executed>>

\* lines 197-203: fstab.new_line returns or raises
NewLine(j) ==
  /\ pc[j] = "mount"
  /\ OthersSuspended(j)
  /\ Call(j, "new_line")
  /\ \/ /\ fstab' = [fstab EXCEPT ![j] = FstabNewLine(@, MountLine(branch[j]))]
        /\ pc' = [pc EXCEPT ![j] = "save"]
        /\ UNCHANGED err
     \/ /\ Raise(j, "FstabError")
        /\ UNCHANGED fstab
  /\ UNCHANGED <<cwd, runs, source, events, pluginDefinition, branch, datasets,
                 content, startContent, fstabSaved, files, pkgCall,
                 pkgLeft, executed>>

\* line 204: fstab.save returns or raises
Save(j) ==
  /\ pc[j] = "save"
  /\ OthersSuspended(j)
  /\ Call(j, "save")
  /\ \/ /\ fstabSaved' = [fstabSaved EXCEPT ![j] = fstab[j]]
        /\ pc' = [pc EXCEPT ![j] = "script"]
        /\ UNCHANGED err
     \/ /\ Raise(j, "SaveError")
        /\ UNCHANGED fstabSaved
  /\ UNCHANGED <<cwd, runs, source, events, pluginDefinition, branch, datasets,
                 content, startContent, fstab, files, pkgCall,
                 pkgLeft, executed>>

\* lines 218-221: the script is generated and written, or open/write raises
\* and line 229 yields JailProvisioning.fail
WriteScript(j) ==
  /\ pc[j] = "script"
  /\ OthersSuspended(j)
  /\ Call(j, "write")
  /\ \/ /\ files' = [files EXCEPT ![PostinstallPath(j)] =
                       GeneratePostinstall(pluginDefinition[j])]
        /\ pc' = [pc EXCEPT ![j] = "delegate"]
        /\ UNCHANGED <<err, events>>
     \/ /\ err' = [err EXCEPT ![j] = "WriteError"]
        /\ Emit(j, Event("JailProvisioning", "fail", "WriteError"))
        /\ pc' = [pc EXCEPT ![j] = "y_pfail"]
        /\ UNCHANGED files
  /\ UNCHANGED <<cwd, runs, source, pluginDefinition, branch, datasets, content,
                 startContent, fstab, fstabSaved, pkgCall, pkgLeft,
                 executed>>

\* lines 206-209, 223-227: fetch_and_install is called with the resolved
\* packages and the script's path; it will emit n events
Delegate(j, n) ==
  /\ pc[j] = "delegate"
  /\ OthersSuspended(j)
  /\ Call(j, "fetch_and_install")
  /\ pkgCall' = [pkgCall EXCEPT ![j] =
                   [called |-> TRUE, jail |-> j,
                    packages |-> ResolvePackages(pluginDefinition[j]),
                    postinstall |-> PostinstallPath(j)]]
  /\ pkgLeft' = [pkgLeft EXCEPT ![j] = [i \in 1..n |-> PkgEvent(i)]]
  /\ pc' = [pc EXCEPT ![j] = "pkg_run"]
  /\ UNCHANGED <<cwd, runs, source, events, err, pluginDefinition, branch,
                 datasets, content, startContent, fstab, fstabSaved,
                 files, executed>>

\* the subsystem's next event is replaced by an event of the pipeline's own
PkgEmitTranslated(j) ==
  /\ pc[j] \in {"pkg_run", "y_pkg"}
  /\ OthersSuspended(j)
  /\ pkgLeft[j] # <<>>
  /\ Emit(j, Event("Pkg", "step", NoErr))
  /\ pkgLeft' = [pkgLeft EXCEPT ![j] = Tail(@)]
  /\ pc' = [pc EXCEPT ![j] = "y_pkg"]
  /\ UNCHANGED <<cwd, runs, source, err, pluginDefinition, branch, ops, datasets,
                 content, startContent, fstab, fstabSaved, files,
                 pkgCall, executed>>

\* line 223, yield from: the next event of the subsystem is passed on
PkgEmit(j) ==
  /\ pc[j] \in {"pkg_run", "y_pkg"}
  /\ OthersSuspended(j)
  /\ pkgLeft[j] # <<>>
  /\ Emit(j, Head(pkgLeft[j]))
  /\ pkgLeft' = [pkgLeft EXCEPT ![j] = Tail(@)]
  /\ pc' = [pc EXCEPT ![j] = "y_pkg"]
  /\ UNCHANGED <<cwd, runs, source, err, pluginDefinition, branch, ops, datasets,
                 content, startContent, fstab, fstabSaved, files,
                 pkgCall, executed>>

\* the subsystem runs the script it was handed and returns; provision()
\* returns after line 227 without yielding anything more
PkgFinish(j) ==
  /\ pc[j] \in {"pkg_run", "y_pkg"}
  /\ OthersSuspended(j)
  /\ pkgLeft[j] = <<>>
  /\ executed' = [executed EXCEPT ![j] = files[pkgCall[j].postinstall]]
  /\ pc' = [pc EXCEPT ![j] = "done"]
  /\ UNCHANGED <<cwd, runs, source, events, err, pluginDefinition, branch, ops,
                 datasets, content, startContent, fstab, fstabSaved,
                 files, pkgCall, pkgLeft>>

\* the subsystem's error leaves provision() without a fail event
PkgRaiseUncaught(j) ==
  /\ pc[j] \in {"pkg_run", "y_pkg"}
  /\ OthersSuspended(j)
  /\ Raise(j, "PkgError")
  /\ UNCHANGED <<cwd, runs, source, events, pluginDefinition, branch, ops,
                 datasets, content, startContent, fstab, fstabSaved, files,
                 pkgCall, pkgLeft, executed>>

\* lines 228-229: the subsystem raises, JailProvisioning.fail is yielded
PkgRaise(j) ==
  /\ pc[j] \in {"pkg_run", "y_pkg"}
  /\ OthersSuspended(j)
  /\ err' = [err EXCEPT ![j] = "PkgError"]
  /\ Emit(j, Event("JailProvisioning", "fail", "PkgError"))
  /\ pc' = [pc EXCEPT ![j] = "y_pfail"]
  /\ UNCHANGED <<cwd, runs, source, pluginDefinition, branch, ops, datasets,
                 content, startContent, fstab, fstabSaved, files,
                 pkgCall, pkgLeft, executed>>

\* the caller stops consuming the events of a suspended generator
Abandon(j) ==
  /\ pc[j] \in YieldPcs
  /\ OthersSuspended(j)
  /\ pc' = [pc EXCEPT ![j] = "abandoned"]
  /\ UNCHANGED <<cwd, runs, source, events, err, pluginDefinition, branch, ops,
                 datasets, content, startContent, fstab, fstabSaved,
                 files, pkgCall, pkgLeft, executed>>

Next ==
  \/ \E j \in JailNames, url \in SourceUrls : StartRun(j, url) /\ UNCHANGED <<evars, dvars>>
  \/ \E j \in JailNames : AssetDownloadBegin(j) /\ UNCHANGED <<evars, dvars>>
  \/ \E j \in JailNames : ConstructOk(j) /\ UNCHANGED <<evars, dvars>>
  \/ \E j \in JailNames : ConstructRaise(j) /\ UNCHANGED <<evars, dvars>>
  \/ \E j \in JailNames : Reraise(j) /\ UNCHANGED <<evars, dvars>>
  \/ \E j \in JailNames : GetOrCreateDataset(j) /\ UNCHANGED <<evars, dvars>>
  \/ \E j \in JailNames : CloneFrom(j) /\ UNCHANGED <<evars, dvars>>
  \/ \E j \in JailNames : CloneSkipped(j) /\ UNCHANGED <<evars, dvars>>
  \/ \E j \in JailNames : LocalBranch(j) /\ UNCHANGED <<evars, dvars>>
  \/ \E j \in JailNames : NewLine(j) /\ UNCHANGED <<evars, dvars>>
  \/ \E j \in JailNames : Save(j) /\ UNCHANGED <<evars, dvars>>
  \/ \E j \in JailNames : WriteScript(j) /\ UNCHANGED <<evars, dvars>>
  \/ \E j \in JailNames, n \in 0..MaxPkgEvents : Delegate(j, n) /\ UNCHANGED <<evars, dvars>>
  \/ \E j \in JailNames : PkgEmit(j) /\ UNCHANGED <<evars, dvars>>
  \/ \E j \in JailNames : PkgFinish(j) /\ UNCHANGED <<evars, dvars>>
  \/ \E j \in JailNames : PkgRaise(j) /\ UNCHANGED <<evars, dvars>>
  \/ \E j \in JailNames : Abandon(j) /\ UNCHANGED <<evars, dvars>>

Spec == Init /\ [][Next]_vars

(***************************************************************************)
(* The enumeration: JailsGenerator.__iter__ (lines 35-47) as a generator   *)
(* consumed by its caller (lazy) or by list() in Jails.__iter__ (eager,    *)
(* lines 103-104).                                                         *)
(***************************************************************************)
InitJails ==
  /\ children \in Listings
  /\ filters \in FilterSets
  /\ corrupt \in {{}} \cup {{GetNameFromJailDataset(d)} : d \in ChildDatasets}
  /\ mode \in {"lazy", "eager"}
  /\ gstate = "new"
  /\ pos = 1
  /\ loaded = <<>>
  /\ yielded = <<>>
  /\ requested = 0
  /\ delivered = <<>>
  /\ iterError = NoErr
  /\ InitProvision
  /\ cwd = "/"
  /\ NoDescriptor

\* JailsGenerator.__iter__ is called: the generator exists, nothing has run
IterCall ==
  /\ gstate = "new"
  /\ gstate' = "suspended"
  /\ UNCHANGED <<children, filters, corrupt, mode, pos, loaded, yielded,
                 requested, delivered, iterError>>

\* the consumer asks for the next jail
CallNext ==
  /\ gstate = "suspended"
  /\ gstate' = "running"
  /\ requested' = requested + 1
  /\ UNCHANGED <<children, filters, corrupt, mode, pos, loaded, yielded,
                 delivered, iterError>>

\* lines 39-42: the candidate's name fails the pre-filter
SkipByName ==
  /\ gstate = "running"
  /\ pos <= Len(children)
  /\ ~PassesNameFilter(filters, children[pos])
  /\ pos' = pos + 1
  /\ UNCHANGED <<children, filters, corrupt, mode, gstate, loaded, yielded,
                 requested, delivered, iterError>>

\* the loop goes on to the next candidate instead of suspending at the yield
LoadAndYieldAhead ==
  /\ gstate = "running"
  /\ pos <= Len(children)
  /\ PassesNameFilter(filters, children[pos])
  /\ GetNameFromJailDataset(children[pos]) \notin corrupt
  /\ MatchJail(filters, LoadJailFromDataset(children[pos]))
  /\ loaded' = Append(loaded, children[pos])
  /\ yielded' = Append(yielded, LoadJailFromDataset(children[pos]))
  /\ delivered' = IF mode = "lazy"
                    THEN Append(delivered, LoadJailFromDataset(children[pos]))
                    ELSE delivered
  /\ pos' = pos + 1
  /\ UNCHANGED <<children, filters, corrupt, mode, gstate, requested, iterError>>

\* lines 45-47: the candidate is loaded, matches and is yielded
LoadAndYield ==
  /\ gstate = "running"
  /\ pos <= Len(children)
  /\ PassesNameFilter(filters, children[pos])
  /\ GetNameFromJailDataset(children[pos]) \notin corrupt
  /\ MatchJail(filters, LoadJailFromDataset(children[pos]))
  /\ loaded' = Append(loaded, children[pos])
  /\ yielded' = Append(yielded, LoadJailFromDataset(children[pos]))
  /\ delivered' = IF mode = "lazy"
                    THEN Append(delivered, LoadJailFromDataset(children[pos]))
                    ELSE delivered
  /\ pos' = pos + 1
  /\ gstate' = "suspended"
  /\ UNCHANGED <<children, filters, corrupt, mode, requested, iterError>>

\* LoadAndReject that yields the jail it should drop
LoadAndRejectYields ==
  /\ gstate = "running"
  /\ pos <= Len(children)
  /\ PassesNameFilter(filters, children[pos])
  /\ GetNameFromJailDataset(children[pos]) \notin corrupt
  /\ ~MatchJail(filters, LoadJailFromDataset(children[pos]))
  /\ loaded' = Append(loaded, children[pos])
  /\ yielded' = Append(yielded, LoadJailFromDataset(children[pos]))
  /\ pos' = pos + 1
  /\ gstate' = "suspended"
  /\ UNCHANGED <<children, filters, corrupt, mode, requested, delivered, iterError>>

\* lines 45-46: the candidate is loaded and fails the complete filter
LoadAndReject ==
  /\ gstate = "running"
  /\ pos <= Len(children)
  /\ PassesNameFilter(filters, children[pos])
  /\ GetNameFromJailDataset(children[pos]) \notin corrupt
  /\ ~MatchJail(filters, LoadJailFromDataset(children[pos]))
  /\ loaded' = Append(loaded, children[pos])
  /\ pos' = pos + 1
  /\ UNCHANGED <<children, filters, corrupt, mode, gstate, yielded, requested,
                 delivered, iterError>>

\* line 45: loading the candidate raises; nothing in __iter__ catches it
LoadRaises ==
  /\ gstate = "running"
  /\ pos <= Len(children)
  /\ PassesNameFilter(filters, children[pos])
  /\ GetNameFromJailDataset(children[pos]) \in corrupt
  /\ loaded' = Append(loaded, children[pos])
  /\ gstate' = "raised"
  /\ iterError' = "LoadError"
  /\ UNCHANGED <<children, filters, corrupt, mode, pos, yielded, requested,
                 delivered>>

\* line 37: the listing is used up
Exhaust ==
  /\ gstate = "running"
  /\ pos > Len(children)
  /\ gstate' = "exhausted"
  /\ UNCHANGED <<children, filters, corrupt, mode, pos, loaded, yielded,
                 requested, delivered, iterError>>

\* the caller of the lazy enumeration stops asking
Close ==
  /\ mode = "lazy"
  /\ gstate = "suspended"
  /\ gstate' = "closed"
  /\ UNCHANGED <<children, filters, corrupt, mode, pos, loaded, yielded,
                 requested, delivered, iterError>>

\* Jails.__iter__, line 104: list() has drained the generator and the list
\* is returned to iter(), which hands it on or raises TypeError
EagerReturn ==
  /\ mode = "eager"
  /\ gstate = "exhausted"
  /\ gstate' = "returned"
  /\ IF IterAccepts(JailsIterResult(yielded))
       THEN delivered' = JailsIterResult(yielded).items /\ UNCHANGED iterError
       ELSE iterError' = "TypeError" /\ UNCHANGED delivered
  /\ UNCHANGED <<children, filters, corrupt, mode, pos, loaded, yielded, requested>>

NextJails ==
  \/ IterCall /\ UNCHANGED <<pvars, dvars>>
  \/ CallNext /\ UNCHANGED <<pvars, dvars>>
  \/ SkipByName /\ UNCHANGED <<pvars, dvars>>
  \/ LoadAndYield /\ UNCHANGED <<pvars, dvars>>
  \/ LoadAndReject /\ UNCHANGED <<pvars, dvars>>
  \/ LoadRaises /\ UNCHANGED <<pvars, dvars>>
  \/ Exhaust /\ UNCHANGED <<pvars, dvars>>
  \/ Close /\ UNCHANGED <<pvars, dvars>>
  \/ EagerReturn /\ UNCHANGED <<pvars, dvars>>

SpecJails == InitJails /\ [][NextJails]_vars

(***************************************************************************)
(* The descriptor on its own.                                              *)
(***************************************************************************)
InitDescriptor ==
  /\ dUrl \in DescriptorUrls
  /\ dConstruct = ""
  /\ dClass = NotClassified
  /\ dScript = NoScript
  /\ InitProvision
  /\ cwd = "/"
  /\ NoEnumeration

\* ControlRepoDefinition(name, url, logger) is called
DescConstruct ==
  /\ dConstruct = ""
  /\ dConstruct' = Construct(SourceName(dUrl), dUrl).raised
  /\ UNCHANGED <<dUrl, dClass, dScript>>

\* the properties local and remote are read from a descriptor of this url
DescClassify ==
  /\ ~dClass.done
  /\ dClass' = [done |-> TRUE,
                local |-> Local(ControlRepoDefinition(SourceName(dUrl), dUrl)),
                remote |-> Remote(ControlRepoDefinition(SourceName(dUrl), dUrl))]
  /\ UNCHANGED <<dUrl, dConstruct, dScript>>

\* generate_postinstall is called on a descriptor of this url
DescPostinstall ==
  /\ dScript = NoScript
  /\ dScript' = GeneratePostinstall(ControlRepoDefinition(SourceName(dUrl), dUrl))
  /\ UNCHANGED <<dUrl, dConstruct, dClass>>

NextDescriptor ==
  \/ DescConstruct /\ UNCHANGED <<pvars, evars>>
  \/ DescClassify /\ UNCHANGED <<pvars, evars>>
  \/ DescPostinstall /\ UNCHANGED <<pvars, evars>>

SpecDescriptor == InitDescriptor /\ [][NextDescriptor]_vars

(***************************************************************************)
(* Properties of provision(), checked under Spec.                          *)
(***************************************************************************)
Range(seq) == {seq[i] : i \in 1..Len(seq)}

Last(seq) == seq[Len(seq)]

CountEvents(seq, kind, states) ==
  Cardinality({i \in 1..Len(seq) : seq[i].kind = kind /\ seq[i].state \in states})

\* the generator has terminated, by returning or by raising
Terminated(j) == pc[j] \in {"done", "raised"}

IsLocalUrl(url) == StartsWith(url, "file://") \/ StartsWith(url, "/")

\* new_line, or save, was called in the current run and returned
NewLineDone(j) ==
  "new_line" \in Range(ops[j]) /\ ~(pc[j] = "raised" /\ err[j] = "FstabError")

SaveDone(j) ==
  "save" \in Range(ops[j]) /\ ~(pc[j] = "raised" /\ err[j] = "SaveError")

PuppetEntries(lines) ==
  {i \in 1..Len(lines) : lines[i].destination = "/usr/local/etc/puppet"}

\* C1: in a run driven until the generator terminates, every lifecycle event
\* whose begin was emitted has exactly one matching end or fail, and a run
\* that returns normally has JailProvisioning.end as its last event.
C1_LifecycleProtocol ==
  \A j \in JailNames :
    Terminated(j) =>
      /\ \A k \in {"JailProvisioning", "JailProvisioningAssetDownload"} :
           CountEvents(events[j], k, {"begin"})
             = CountEvents(events[j], k, {"end", "fail"})
      /\ pc[j] = "done" =>
           Last(events[j]) = Event("JailProvisioning", "end", NoErr)

\* C2: an error that reaches the caller was first emitted as a fail event
\* carrying it, and the failed call was made once.
C2_FailBeforeRaise ==
  \A j \in JailNames :
    pc[j] = "raised" =>
      /\ events[j] # <<>>
      /\ Last(events[j]).state = "fail"
      /\ Last(events[j]).err = err[j]
      /\ \A a, b \in 1..Len(ops[j]) : a # b => ops[j][a] # ops[j][b]

\* C3: a run for a remote url that an earlier run of the same jail already
\* cloned into the dataset's mountpoint does not invoke clone_from, and the
\* content of the mountpoint stays what it was.
C3_IdempotentClone ==
  \A j \in JailNames :
    (startContent[j] # "" /\ source[j] = startContent[j]) =>
      /\ "clone_from" \notin Range(ops[j])
      /\ content[PluginDatasetName(j)] = startContent[j]

\* C4: while the package subsystem works for a jail, the script file it was
\* handed holds the script generated from that jail's descriptor: no run of
\* another jail writes to it.
C4_Isolation ==
  \A j \in JailNames :
    pc[j] \in {"pkg_run", "y_pkg"} =>
      files[pkgCall[j].postinstall] = GeneratePostinstall(pluginDefinition[j])

OneEntry(lines, b) ==
  /\ Cardinality(PuppetEntries(lines)) = 1
  /\ \A i \in PuppetEntries(lines) :
       lines[i].source = b.mount_source /\ lines[i].options = b.mode

\* C5: once new_line has returned in a run, the jail's mount table holds
\* exactly one entry for /usr/local/etc/puppet, with the source and options
\* this run computed; once save has returned, so does the persisted table.
C5_MountUpsert ==
  \A j \in JailNames :
    /\ NewLineDone(j) => OneEntry(fstab[j], branch[j])
    /\ SaveDone(j) => OneEntry(fstabSaved[j], branch[j])

\* a read-only entry has replaced the read-write one an earlier run persisted
C5_Witness ==
  \E j \in JailNames :
    /\ pc[j] = "save"
    /\ \E i \in PuppetEntries(fstabSaved[j]) : fstabSaved[j][i].options = "rw"
    /\ \E i \in PuppetEntries(fstab[j]) : fstab[j][i].options = "ro"

\* C6: the entry registered has options ro and the url as source for a local
\* url, options rw and the mountpoint of <jail-dataset>/puppet for a remote
\* one; a run for a local url calls neither the dataset store nor clone.
C6_BranchResult ==
  \A j \in JailNames :
    /\ NewLineDone(j) =>
         /\ PuppetEntries(fstab[j]) # {}
         /\ \A i \in PuppetEntries(fstab[j]) :
              IF IsLocalUrl(source[j])
                THEN fstab[j][i].options = "ro" /\ fstab[j][i].source = source[j]
                ELSE /\ fstab[j][i].options = "rw"
                     /\ fstab[j][i].source = Mountpoint(JailDatasetName(j) \o "/puppet")
    /\ IsLocalUrl(source[j]) =>
         Range(ops[j]) \cap {"get_or_create_dataset", "clone_from"} = {}

\* one jail has registered the entry of a local url, the other of a remote one
C6_Witness ==
  \E j, k \in JailNames :
    /\ NewLineDone(j) /\ IsLocalUrl(source[j])
    /\ NewLineDone(k) /\ source[k] # "" /\ ~IsLocalUrl(source[k])
    /\ "clone_from" \in Range(ops[k])

\* C7: the packages given to fetch_and_install are the base package, and the
\* fetch-tool package exactly when the url is remote.
C7_PackageSet ==
  \A j \in JailNames :
    pkgCall[j].called =>
      Range(pkgCall[j].packages)
        = {"puppet6"} \cup (IF IsLocalUrl(source[j]) THEN {} ELSE {"rubygem-r10k"})

(***************************************************************************)
(* Properties of the enumeration, checked under SpecJails.                 *)
(***************************************************************************)
HasSlash(n) == \E i \in 1..Len(n) : SubSeq(n, i, i) = "/"

\* n is the last path segment of the dataset identifier ds
LastSegmentIs(ds, n) ==
  /\ ~HasSlash(n)
  /\ \/ ds = n
     \/ /\ Len(ds) > Len(n)
        /\ SubSeq(ds, Len(ds) - Len(n) + 1, Len(ds)) = n
        /\ SubSeq(ds, Len(ds) - Len(n), Len(ds) - Len(n)) = "/"

Suffixes(ds) == {SubSeq(ds, i, Len(ds)) : i \in 1..Len(ds)}

NameTerms == {t \in filters : t.key = "name"}

\* the child passes the name pre-filter and its record the complete filter
Selected(ds) ==
  /\ \A t \in NameTerms : LastSegmentIs(ds, t.value)
  /\ \E n \in Suffixes(ds) :
       /\ LastSegmentIs(ds, n)
       /\ \A t \in filters : t.value \in ResolveKey(JailStore(n), t.key)

RecordOf(ds) == JailStore(CHOOSE n \in Suffixes(ds) : LastSegmentIs(ds, n))

RECURSIVE ExpectedRecords(_)
ExpectedRecords(l) ==
  IF l = <<>> THEN <<>>
  ELSE IF Selected(Head(l))
    THEN <<RecordOf(Head(l))>> \o ExpectedRecords(Tail(l))
    ELSE ExpectedRecords(Tail(l))

IsPrefix(a, b) == Len(a) <= Len(b) /\ SubSeq(b, 1, Len(a)) = a

\* C8: with a name term for x in the filter set, no jail is loaded for a
\* child whose last path segment is not x.
C8_PreFilterSound ==
  \A i \in 1..Len(loaded) : \A t \in NameTerms : LastSegmentIs(loaded[i], t.value)

\* three children were scanned under a name filter and one was loaded
C8_Witness ==
  /\ gstate = "exhausted"
  /\ NameTerms # {}
  /\ Len(children) = 3
  /\ Len(loaded) = 1

\* C9: the jails yielded are, in the listing's order, the children that pass
\* the name pre-filter and whose record passes the complete filter: a prefix
\* of them at any time, all of them once the listing is used up.
C9_EnumerationResult ==
  /\ IsPrefix(yielded, ExpectedRecords(children))
  /\ gstate \in {"exhausted", "returned"} => yielded = ExpectedRecords(children)

\* a drained enumeration that yielded two jails and dropped a loaded one
C9_Witness ==
  /\ gstate = "exhausted"
  /\ Len(yielded) = 2
  /\ Len(loaded) = 3

\* C10: iterating the eager enumeration gives the caller the jails a drained
\* lazy enumeration yields, in the same order, without an error.
C10_EagerEqualsLazy ==
  (mode = "eager" /\ gstate = "returned") =>
    /\ iterError = NoErr
    /\ delivered = yielded

\* C11: when loading one candidate raises, the scan goes on: every later
\* child that passes the pre-filter and the complete filter is still yielded.
C11_ContinueOnCandidateError ==
  gstate = "raised" =>
    \A i \in (pos + 1)..Len(children) :
      (Selected(children[i]) /\ GetNameFromJailDataset(children[i]) \notin corrupt)
        => RecordOf(children[i]) \in Range(yielded)

PhaseRank(op) ==
  CASE op = "get_or_create_dataset" -> 1
    [] op = "clone_from" -> 2
    [] op = "new_line" -> 3
    [] op = "save" -> 4
    [] op = "write" -> 5
    [] op = "fetch_and_install" -> 6

AssetDownloadEnd == Event("JailProvisioningAssetDownload", "end", NoErr)

\* the order of the events and of the collaborator calls of one run
PhaseOrder(j) ==
  /\ events[j] # <<>> => events[j][1] = Event("JailProvisioning", "begin", NoErr)
  /\ Len(events[j]) >= 2 =>
       events[j][2] = Event("JailProvisioningAssetDownload", "begin", NoErr)
  /\ pluginDefinition[j] # NoDefinition => Len(events[j]) >= 2
  /\ AssetDownloadEnd \in Range(events[j]) =>
       events[j][3] = AssetDownloadEnd /\ pluginDefinition[j] # NoDefinition
  /\ ops[j] # <<>> => Len(events[j]) >= 3 /\ events[j][3] = AssetDownloadEnd
  /\ \A a, b \in 1..Len(ops[j]) : a < b => PhaseRank(ops[j][a]) < PhaseRank(ops[j][b])
  /\ "clone_from" \in Range(ops[j]) => "get_or_create_dataset" \in Range(ops[j])
  /\ "new_line" \in Range(ops[j]) =>
       (IsLocalUrl(source[j]) <=> "get_or_create_dataset" \notin Range(ops[j]))
  /\ "save" \in Range(ops[j]) => "new_line" \in Range(ops[j])
  /\ "write" \in Range(ops[j]) => "save" \in Range(ops[j])
  /\ "fetch_and_install" \in Range(ops[j]) => "write" \in Range(ops[j])
  /\ \A i \in 1..Len(events[j]) :
       events[j][i].kind = "Pkg" => i > 3 /\ "fetch_and_install" \in Range(ops[j])

\* a step of jail j that changes the dataset store, a mountpoint, a mount
\* table or a script file is taken after AssetDownload.end was emitted
MutatesAfterAssetDownloadEnd ==
  \A j \in JailNames :
    (pc'[j] # pc[j]
     /\ <<datasets, content, fstab, fstabSaved, files>>'
          # <<datasets, content, fstab, fstabSaved, files>>)
      => AssetDownloadEnd \in Range(events[j])

\* C12: in one run the events and calls occur in the order
\* JailProvisioning.begin, AssetDownload.begin, construction, AssetDownload.end,
\* (remote: get_or_create_dataset, clone_from), new_line, save, script write,
\* package events; nothing is mutated before AssetDownload.end was emitted.
C12_PhaseOrdering ==
  /\ [](\A j \in JailNames : PhaseOrder(j))
  /\ [][MutatesAfterAssetDownloadEnd]_vars

\* a remote run that went through every phase and returned
C12_Witness ==
  \E j \in JailNames :
    /\ pc[j] = "done"
    /\ ops[j] = <<"get_or_create_dataset", "clone_from", "new_line", "save",
                  "write", "fetch_and_install">>
    /\ \E i \in 1..Len(events[j]) : events[j][i].kind = "Pkg"

\* what a run whose descriptor construction raised has emitted and done
ConstructionFailed(j) ==
  /\ events[j] = <<Event("JailProvisioning", "begin", NoErr),
                   Event("JailProvisioningAssetDownload", "begin", NoErr),
                   Event("JailProvisioningAssetDownload", "fail", err[j])>>
  /\ ops[j] = <<>>
  /\ ~pkgCall[j].called
  /\ pc[j] \in {"y_afail", "raised", "abandoned"}

\* a step of a run whose construction raised touches no store
ConstructionFailureTouchesNothing ==
  \A j \in JailNames :
    (pc'[j] # pc[j] /\ err'[j] = "ConstructError") =>
      UNCHANGED <<datasets, content, fstab, fstabSaved, files, pkgCall, executed>>

\* C13: when descriptor construction raises e, AssetDownload.fail(e) is
\* emitted and AssetDownload.end is not, e is what reaches the caller, and
\* the dataset store, the clone target, the mount table, the launch script
\* and the package subsystem are left as they were.
C13_SourceUnavailable ==
  /\ [](\A j \in JailNames : err[j] = "ConstructError" => ConstructionFailed(j))
  /\ [][ConstructionFailureTouchesNothing]_vars

\* the error has reached the caller of a jail an earlier run had mounted
C13_Witness ==
  \E j \in JailNames :
    /\ pc[j] = "raised"
    /\ err[j] = "ConstructError"
    /\ PuppetEntries(fstabSaved[j]) # {}

(***************************************************************************)
(* Properties of ControlRepoDefinition, checked under SpecDescriptor.      *)
(***************************************************************************)
\* s is p followed by something
HasPrefix(s, p) == \E k \in 0..Len(s) : s = p \o SubSeq(s, k + 1, Len(s))

\* C14: a url that starts with file:// or / has local = true and
\* remote = false; any other non-empty url has local = false and
\* remote = true; local and remote never agree.
C14_LocalityClassification ==
  dClass.done =>
    /\ (HasPrefix(dUrl, "file://") \/ HasPrefix(dUrl, "/")) =>
         dClass.local /\ ~dClass.remote
    /\ (~(HasPrefix(dUrl, "file://") \/ HasPrefix(dUrl, "/")) /\ dUrl # "") =>
         ~dClass.local /\ dClass.remote
    /\ dClass.local # dClass.remote

\* a file:// url was classified
C14_Witness ==
  /\ dClass.done
  /\ dUrl = "file://a/"
  /\ dClass.local

\* the url names a remote scheme
RecognizedRemote(url) ==
  HasPrefix(url, "http://") \/ HasPrefix(url, "https://") \/ HasPrefix(url, "git@")

\* C15: constructing a descriptor never fails, and a url that is not of a
\* recognized remote scheme is classified local.
C15_TotalDegradesToLocal ==
  /\ dConstruct \in {"", NoErr}
  /\ (dClass.done /\ ~RecognizedRemote(dUrl)) => dClass.local /\ ~dClass.remote

ApplyCommand == "puppet apply /usr/local/etc/puppet/environments/manifests/site.pp"

DeployCommand == "r10k deploy environment -p"

IndexOf(seq, x) == CHOOSE i \in 1..Len(seq) : seq[i] = x

\* C16: the script ends with the apply command; it holds the r10k
\* configuration block and the deploy command, before the apply command,
\* exactly when the url is remote, and the block's remote is the url.
C16_PostinstallShape ==
  dScript # NoScript =>
    LET remote == ~(HasPrefix(dUrl, "file://") \/ HasPrefix(dUrl, "/")) IN
      /\ Last(dScript) = ApplyCommand
      /\ remote <=> DeployCommand \in Range(dScript)
      /\ remote <=> ":source:" \in Range(dScript)
      /\ remote =>
           /\ IndexOf(dScript, ":source:") < IndexOf(dScript, DeployCommand)
           /\ IndexOf(dScript, DeployCommand) < IndexOf(dScript, ApplyCommand)
           /\ ("remote: " \o dUrl) \in Range(dScript)

LateErrors == {"WriteError", "PkgError"}

FailedLate(j) == err[j] \in LateErrors

\* the step in which the error leaves provision() hands the caller the error
\* of the fail event that was emitted last
SurfacesEmittedError ==
  \A j \in JailNames :
    (pc[j] # "raised" /\ pc'[j] = "raised" /\ FailedLate(j)) =>
      /\ err'[j] = Last(events[j]).err
      /\ events'[j] = events[j]

\* C17: when the script write or the package subsystem raises e, the run
\* emits JailProvisioning.fail(e) exactly once, as its last event, emits no
\* JailProvisioning.end, and the error that reaches the caller is e.
C17_LateFailure ==
  /\ [](\A j \in JailNames :
          FailedLate(j) =>
            /\ pc[j] \in {"y_pfail", "raised", "abandoned"}
            /\ CountEvents(events[j], "JailProvisioning", {"fail"}) = 1
            /\ Last(events[j]) = Event("JailProvisioning", "fail", err[j])
            /\ CountEvents(events[j], "JailProvisioning", {"end"}) = 0)
  /\ [][SurfacesEmittedError]_vars

C17_Witness ==
  \E j \in JailNames :
    /\ pc[j] = "raised"
    /\ err[j] = "PkgError"
    /\ PkgEvent(1) \in Range(events[j])
    /\ Last(events[j]) = Event("JailProvisioning", "fail", "PkgError")

AbnormalPcs == {"raised", "abandoned"}

\* this step ends the run of jail j by an error or by the caller's stopping
EndsAbnormally(j) == pc[j] \notin AbnormalPcs /\ pc'[j] \in AbnormalPcs

\* the step that ends a run abnormally changes nothing the run had made
AbnormalEndKeepsMutations ==
  (\E j \in JailNames : EndsAbnormally(j)) =>
    UNCHANGED <<datasets, content, fstab, fstabSaved, files>>

\* no step of the pipeline deletes a dataset, empties a cloned mountpoint,
\* removes a mount-table line or deletes the script
NoUndoStep ==
  /\ datasets \subseteq datasets'
  /\ \A ds \in PluginDatasets : content[ds] # "" => content'[ds] = content[ds]
  /\ \A j \in JailNames :
       /\ Len(fstab'[j]) >= Len(fstab[j])
       /\ PuppetEntries(fstab[j]) \subseteq PuppetEntries(fstab'[j])
       /\ Len(fstabSaved'[j]) >= Len(fstabSaved[j])
       /\ PuppetEntries(fstabSaved[j]) \subseteq PuppetEntries(fstabSaved'[j])
  /\ \A p \in ScriptPaths : files[p] # NoScript => files'[p] # NoScript

\* C18: a run that ends abnormally, by an error at any step or by the caller
\* ceasing to consume the events, leaves every mutation it had made as it
\* was; no step deletes or undoes anything.
C18_NoRollback == [][AbnormalEndKeepsMutations /\ NoUndoStep]_vars

C18_Witness ==
  \E j \in JailNames :
    /\ pc[j] \in AbnormalPcs
    /\ "fetch_and_install" \in Range(ops[j])
    /\ PluginDatasetName(j) \in datasets
    /\ content[PluginDatasetName(j)] # ""
    /\ PuppetEntries(fstabSaved[j]) # {}
    /\ files[PostinstallPath(j)] # NoScript

\* the positions of the package subsystem's events in a stream
PkgPositions(evs) == {i \in 1..Len(evs) : evs[i].kind = "Pkg"}

TerminalPositions(evs) ==
  {i \in 1..Len(evs) :
     evs[i].kind = "JailProvisioning" /\ evs[i].state \in {"end", "fail"}}

AssetDownloadEndPositions(evs) ==
  {i \in 1..Len(evs) : evs[i] = Event("JailProvisioningAssetDownload", "end", NoErr)}

\* the stream holds the subsystem's first k events, as they were emitted and
\* in their order, next to each other, after AssetDownload.end and before a
\* terminal event; the events not yet emitted are the ones that follow
PassedThrough(j) ==
  LET evs == events[j]
      k == Cardinality(PkgPositions(evs))
      first == CHOOSE i \in PkgPositions(evs) :
                 \A o \in PkgPositions(evs) : i <= o
  IN /\ k > 0 =>
          /\ PkgPositions(evs) = first..(first + k - 1)
          /\ \A i \in 1..k : evs[first + i - 1] = PkgEvent(i)
          /\ \E a \in AssetDownloadEndPositions(evs) : a < first
          /\ \A t \in TerminalPositions(evs) : t > first + k - 1
     /\ \A i \in 1..Len(pkgLeft[j]) : pkgLeft[j][i] = PkgEvent(k + i)

\* an event leaves the subsystem only by being appended to the caller's stream
EmittedIsAppended ==
  \A j \in JailNames :
    (pkgCall[j].called /\ pkgCall'[j].called /\ pkgLeft'[j] # pkgLeft[j]) =>
      /\ pkgLeft[j] # <<>>
      /\ pkgLeft'[j] = Tail(pkgLeft[j])
      /\ events'[j] = Append(events[j], Head(pkgLeft[j]))

\* C19: in a run that reaches the delegation, the events of the package
\* subsystem appear in the caller's stream unchanged, in order, none dropped,
\* duplicated or replaced, as one block after AssetDownload.end and before
\* any terminal JailProvisioning event.
C19_EventPassthrough ==
  /\ [](\A j \in JailNames : pkgCall[j].called => PassedThrough(j))
  /\ [](\A j \in JailNames : ~pkgCall[j].called => PkgPositions(events[j]) = {})
  /\ [][EmittedIsAppended]_vars

C19_Witness ==
  \E j \in JailNames :
    /\ pkgCall[j].called
    /\ pkgLeft[j] = <<>>
    /\ Cardinality(PkgPositions(events[j])) = MaxPkgEvents
    /\ TerminalPositions(events[j]) # {}

\* where a dataset, or the dataset of a record, stands in the child listing
PositionOf(ds) == CHOOSE i \in 1..Len(children) : children[i] = ds

PositionOfRecord(r) ==
  CHOOSE i \in 1..Len(children) : RecordOf(children[i]) = r

\* the caller holds every record it asked for and the generator is at rest
AtRest == gstate \in {"suspended", "closed"}

\* nothing that stands after the last record handed out has been loaded
NothingLoadedAhead ==
  IF yielded = <<>>
    THEN loaded = <<>>
    ELSE \A i \in 1..Len(loaded) :
           PositionOf(loaded[i]) <= PositionOfRecord(Last(yielded))

\* a load happens only while a requested record is still owed
LoadsOnlyOnDemand ==
  (mode = "lazy" /\ loaded' # loaded) =>
    /\ gstate = "running"
    /\ Len(yielded) < requested
    /\ Len(loaded') = Len(loaded) + 1

\* C20: in a lazy enumeration of which the caller has requested k records, no
\* candidate that stands after the k-th yielded record has been loaded, each
\* candidate is loaded at most once, and a caller that stops causes no
\* further loads.
C20_OnDemandLoading ==
  /\ [](mode = "lazy" =>
          /\ Len(yielded) <= requested
          /\ NoRepeat(loaded)
          /\ \A i \in 1..Len(loaded) : loaded[i] \in Range(children)
          /\ (AtRest /\ Len(yielded) = requested) => NothingLoadedAhead)
  /\ [][LoadsOnlyOnDemand]_vars

C20_Witness ==
  /\ mode = "lazy"
  /\ gstate = "closed"
  /\ Len(yielded) = 1
  /\ requested = 1
  /\ Len(loaded) = 2
  /\ \E i \in pos..Len(children) :
       /\ PassesNameFilter(filters, children[i])
       /\ children[i] \notin Range(loaded)

====
